---------------------------- MODULE Spec2Model ----------------------------
(***************************************************************************)
(* A model of the checked floating point wrapper NoisyFloat<F, C>          *)
(* (src/src/lib.rs, src/src/float_impl.rs).                                *)
(*                                                                         *)
(* The underlying float type F is modelled by a small IEEE-style format:   *)
(* NaN, the two infinities, the two signed zeros, and the finite non-zero  *)
(* values +-1/2, +-1, +-3/2, ... +-MaxInt.  A finite magnitude is held in  *)
(* units of one half.  Arithmetic rounds to the nearest representable      *)
(* value (ties to even), overflows to an infinity and underflows to a      *)
(* signed zero, and follows the IEEE rules for NaN, infinities and signed  *)
(* zeros.                                                                  *)
(***************************************************************************)
EXTENDS Integers, Sequences, FiniteSets, TLC

\* Largest finite value of the modelled float format (F::max_value()).
MaxInt == 2

\* The largest finite magnitude, in halves.
MaxMag == 2 * MaxInt

(***************************************************************************)
(* FValues floats: the type F                                                  *)
(***************************************************************************)
NaN == [cls |-> "nan", neg |-> FALSE, mag |-> 0]
MkInf(n) == [cls |-> "inf", neg |-> n, mag |-> 0]
MkZero(n) == [cls |-> "zero", neg |-> n, mag |-> 0]
MkFin(n, m) == [cls |-> "fin", neg |-> n, mag |-> m]

\* Every value of the float type F.
FValues ==
    {NaN} \cup {MkInf(n) : n \in BOOLEAN} \cup {MkZero(n) : n \in BOOLEAN}
          \cup {MkFin(n, m) : n \in BOOLEAN, m \in 1..MaxMag}

\* A primitive number of a type wider than F (an f64 handed to an f32-backed
\* wrapper): the same values and finite magnitudes beyond F's range.
WideMag == MaxMag + 2
WideValues ==
    FValues \cup {MkFin(n, m) : n \in BOOLEAN, m \in (MaxMag + 1)..WideMag}

FIsNan(v) == v.cls = "nan"
FIsInfinite(v) == v.cls = "inf"
FIsFinite(v) == v.cls \in {"zero", "fin"}
FIsZero(v) == v.cls = "zero"
FIsNormal(v) == v.cls = "fin"
FIsSignNegative(v) == v.neg
FIsSignPositive(v) == ~v.neg

FClassify(v) ==
    CASE v.cls = "nan" -> "Nan"
      [] v.cls = "inf" -> "Infinite"
      [] v.cls = "zero" -> "MkZero"
      [] v.cls = "fin" -> "Normal"

\* (mantissa, exponent, sign) of the value: magnitudes count halves, so the
\* exponent of a zero or finite value is -1; an infinity or NaN has exponent 1.
FIntegerDecode(v) ==
    LET sign == IF v.neg THEN -1 ELSE 1
    IN  CASE v.cls = "nan" -> <<1, 1, 1>>
          [] v.cls = "inf" -> <<0, 1, sign>>
          [] OTHER -> <<v.mag, -1, sign>>

IntAbs(i) == IF i < 0 THEN -i ELSE i

\* The number of halves a finite value denotes.
Val(v) == IF v.cls = "fin" THEN (IF v.neg THEN -v.mag ELSE v.mag) ELSE 0

\* An exact magnitude m (in halves) with sign n, as a float: overflow gives an
\* infinity, a magnitude rounded down to nothing gives a signed zero.
Pack(n, m) ==
    IF m = 0 THEN MkZero(n)
    ELSE IF m > MaxMag THEN MkInf(n)
    ELSE MkFin(n, m)

\* num / den (num >= 0, den > 0) rounded to the nearest integer, ties to even.
RoundDiv(num, den) ==
    LET q == num \div den
        r == num % den
    IN  IF 2 * r < den THEN q
        ELSE IF 2 * r > den THEN q + 1
        ELSE IF q % 2 = 0 THEN q ELSE q + 1

FOne == MkFin(FALSE, 2)
FZero == MkZero(FALSE)
FNegZero == MkZero(TRUE)
FInfinity == MkInf(FALSE)
FNegInfinity == MkInf(TRUE)
FMaxValue == MkFin(FALSE, MaxMag)
FMinValue == MkFin(TRUE, MaxMag)
FMinPositiveValue == MkFin(FALSE, 1)
FDefault == MkZero(FALSE)

FNeg(v) == IF FIsNan(v) THEN NaN ELSE [v EXCEPT !.neg = ~v.neg]

FAdd(v, w) ==
    IF FIsNan(v) \/ FIsNan(w) THEN NaN
    ELSE IF FIsInfinite(v) /\ FIsInfinite(w)
        THEN (IF v.neg = w.neg THEN v ELSE NaN)
    ELSE IF FIsInfinite(v) THEN v
    ELSE IF FIsInfinite(w) THEN w
    ELSE IF FIsZero(v) /\ FIsZero(w) THEN MkZero(v.neg /\ w.neg)
    ELSE LET s == Val(v) + Val(w)
         IN  IF s = 0 THEN MkZero(FALSE) ELSE Pack(s < 0, IntAbs(s))

FSub(v, w) == FAdd(v, FNeg(w))

FMul(v, w) ==
    IF FIsNan(v) \/ FIsNan(w) THEN NaN
    ELSE IF (FIsInfinite(v) /\ FIsZero(w)) \/ (FIsZero(v) /\ FIsInfinite(w)) THEN NaN
    ELSE IF FIsInfinite(v) \/ FIsInfinite(w) THEN MkInf(v.neg # w.neg)
    ELSE Pack(v.neg # w.neg, RoundDiv(v.mag * w.mag, 2))

FDiv(v, w) ==
    IF FIsNan(v) \/ FIsNan(w) THEN NaN
    ELSE IF (FIsInfinite(v) /\ FIsInfinite(w)) \/ (FIsZero(v) /\ FIsZero(w)) THEN NaN
    ELSE IF FIsInfinite(v) \/ FIsZero(w) THEN MkInf(v.neg # w.neg)
    ELSE IF FIsInfinite(w) \/ FIsZero(v) THEN MkZero(v.neg # w.neg)
    ELSE Pack(v.neg # w.neg, RoundDiv(2 * v.mag, w.mag))

\* The float remainder (fmod): exact, with the sign of the dividend.
FRem(v, w) ==
    IF FIsNan(v) \/ FIsNan(w) THEN NaN
    ELSE IF FIsInfinite(v) \/ FIsZero(w) THEN NaN
    ELSE IF FIsInfinite(w) \/ FIsZero(v) THEN v
    ELSE Pack(v.neg, v.mag % w.mag)

\* The comparisons of the float type: every comparison with NaN is false, and
\* the two zeros are equal.
FEq(v, w) ==
    /\ ~FIsNan(v) /\ ~FIsNan(w)
    /\ \/ (FIsInfinite(v) /\ FIsInfinite(w) /\ v.neg = w.neg)
       \/ (FIsFinite(v) /\ FIsFinite(w) /\ Val(v) = Val(w))

FLt(v, w) ==
    /\ ~FIsNan(v) /\ ~FIsNan(w)
    /\ ~FEq(v, w)
    /\ \/ (FIsInfinite(v) /\ v.neg)
       \/ (FIsInfinite(w) /\ ~w.neg)
       \/ (FIsFinite(v) /\ FIsFinite(w) /\ Val(v) < Val(w))

FLe(v, w) == FLt(v, w) \/ FEq(v, w)
FGt(v, w) == FLt(w, v)
FGe(v, w) == FLe(w, v)

\* Option<Ordering>: "None" when the two values are unordered.
FPartialCmp(v, w) ==
    IF FLt(v, w) THEN "Less"
    ELSE IF FEq(v, w) THEN "Equal"
    ELSE IF FGt(v, w) THEN "Greater"
    ELSE "None"

\* The rounding family.  Every finite magnitude is a number of halves.
FTrunc(v) == IF v.cls = "fin" THEN Pack(v.neg, (v.mag \div 2) * 2) ELSE v

FFloor(v) ==
    IF v.cls # "fin" THEN v
    ELSE IF v.neg THEN Pack(TRUE, ((v.mag + 1) \div 2) * 2)
    ELSE Pack(FALSE, (v.mag \div 2) * 2)

FCeil(v) ==
    IF v.cls # "fin" THEN v
    ELSE IF v.neg THEN Pack(TRUE, (v.mag \div 2) * 2)
    ELSE Pack(FALSE, ((v.mag + 1) \div 2) * 2)

\* Rounds half-way cases away from zero.
FRound(v) == IF v.cls = "fin" THEN Pack(v.neg, ((v.mag + 1) \div 2) * 2) ELSE v

\* self - self.trunc()
FFract(v) == FSub(v, FTrunc(v))

FAbs(v) == IF FIsNan(v) THEN NaN ELSE [v EXCEPT !.neg = FALSE]

\* 1.0 for a positive sign (+0.0 and +inf included), -1.0 for a negative one.
FSignum(v) == IF FIsNan(v) THEN NaN ELSE MkFin(v.neg, 2)

FRecip(v) == FDiv(FOne, v)

\* The exponents the model raises to.
PowiExponents == {-1, 0, 1, 2}

FPowi(v, n) ==
    CASE n = 0 -> FOne
      [] n = 1 -> v
      [] n = 2 -> FMul(v, v)
      [] n = -1 -> FDiv(FOne, v)

\* The integer nearest to the square root of s (s > 0, never half-way when
\* 4 * s is not an odd square).
NearestSqrt(s) ==
    CHOOSE r \in 0..(s + 1) :
        (2 * r - 1) * (2 * r - 1) < 4 * s /\ 4 * s < (2 * r + 1) * (2 * r + 1)

\* The integer nearest to the cube root of s (s > 0).
NearestCbrt(s) ==
    CHOOSE r \in 0..(s + 1) :
        /\ (2 * r - 1) * (2 * r - 1) * (2 * r - 1) < 8 * s
        /\ 8 * s < (2 * r + 1) * (2 * r + 1) * (2 * r + 1)

FSqrt(v) ==
    IF FIsNan(v) THEN NaN
    ELSE IF FIsZero(v) THEN v
    ELSE IF v.neg THEN NaN
    ELSE IF FIsInfinite(v) THEN v
    ELSE Pack(FALSE, NearestSqrt(2 * v.mag))

FCbrt(v) == IF v.cls = "fin" THEN Pack(v.neg, NearestCbrt(4 * v.mag)) ELSE v

FHypot(v, w) ==
    IF FIsInfinite(v) \/ FIsInfinite(w) THEN MkInf(FALSE)
    ELSE IF FIsNan(v) \/ FIsNan(w) THEN NaN
    ELSE IF FIsZero(v) /\ FIsZero(w) THEN MkZero(FALSE)
    ELSE Pack(FALSE, NearestSqrt(v.mag * v.mag + w.mag * w.mag))

\* exp, ln, sin and cos of k halves (k = 1 .. 8), in halves, rounded to nearest.
ExpTable == <<3, 5, 9, 15, 24, 40, 66, 109>>
ExpNegTable == <<1, 1, 0, 0, 0, 0, 0, 0>>
LnTable == <<-1, 0, 1, 1, 2, 2, 3, 3>>
SinTable == <<1, 2, 2, 2, 1, 0, -1, -2>>
CosTable == <<2, 1, 0, -1, -2, -2, -2, -1>>

FExp(v) ==
    IF FIsNan(v) THEN NaN
    ELSE IF FIsInfinite(v) THEN (IF v.neg THEN MkZero(FALSE) ELSE v)
    ELSE IF FIsZero(v) THEN FOne
    ELSE IF v.neg THEN Pack(FALSE, ExpNegTable[v.mag])
    ELSE Pack(FALSE, ExpTable[v.mag])

FLn(v) ==
    IF FIsNan(v) THEN NaN
    ELSE IF FIsZero(v) THEN MkInf(TRUE)
    ELSE IF v.neg THEN NaN
    ELSE IF FIsInfinite(v) THEN v
    ELSE Pack(LnTable[v.mag] < 0, IntAbs(LnTable[v.mag]))

\* sin is odd: a result that rounds to zero keeps the sign of the exact value.
FSin(v) ==
    IF FIsNan(v) \/ FIsInfinite(v) THEN NaN
    ELSE IF FIsZero(v) THEN v
    ELSE Pack(v.neg # (SinTable[v.mag] < 0), IntAbs(SinTable[v.mag]))

FCos(v) ==
    IF FIsNan(v) \/ FIsInfinite(v) THEN NaN
    ELSE IF FIsZero(v) THEN FOne
    ELSE Pack(CosTable[v.mag] < 0, IntAbs(CosTable[v.mag]))

FSinCos(v) == <<FSin(v), FCos(v)>>

\* Fused multiply-add: v * m + t with a single rounding.  The exact value is
\* counted in quarters.
FMulAdd(v, m, t) ==
    IF ~(FIsFinite(v) /\ FIsFinite(m)) THEN FAdd(FMul(v, m), t)
    ELSE IF ~FIsFinite(t) THEN t
    ELSE LET q == Val(v) * Val(m) + 2 * Val(t)
         IN  IF q # 0 THEN Pack(q < 0, RoundDiv(IntAbs(q), 2))
             ELSE IF (FIsZero(v) \/ FIsZero(m)) /\ FIsZero(t)
                 THEN MkZero((v.neg # m.neg) /\ t.neg)
             ELSE MkZero(FALSE)

\* max and min ignore a NaN operand.
FMax(v, w) ==
    IF FIsNan(v) THEN w
    ELSE IF FIsNan(w) THEN v
    ELSE IF FLt(v, w) THEN w ELSE v

FMin(v, w) ==
    IF FIsNan(v) THEN w
    ELSE IF FIsNan(w) THEN v
    ELSE IF FLt(w, v) THEN w ELSE v

\* The positive difference (fdim).
FAbsSub(v, w) ==
    IF FIsNan(v) \/ FIsNan(w) THEN NaN
    ELSE IF FGt(v, w) THEN FSub(v, w)
    ELSE MkZero(FALSE)

\* v * (180 / pi) and v * (pi / 180), the factors to six significant digits.
FToDegrees(v) ==
    IF v.cls = "fin" THEN Pack(v.neg, RoundDiv(v.mag * 572958, 10000)) ELSE v

FToRadians(v) ==
    IF v.cls = "fin" THEN Pack(v.neg, RoundDiv(v.mag * 174533, 10000000)) ELSE v

\* F::from(n) for a primitive n (num_traits NumCast for a float type): a finite
\* value beyond F's range does not convert; NaN and the infinities are cast as
\* they are.
FFrom(n) ==
    IF n.cls = "fin" /\ n.mag > MaxMag THEN <<>> ELSE <<n>>

\* The texts handed to the parser, one character per element, and the radixes.
Texts ==
    { <<>>, <<"-">>, <<"N", "a", "N">>, <<"n", "a", "n">>, <<"i", "n", "f">>,
      <<"-", "i", "n", "f">>, <<"0">>, <<"-", "0">>, <<"1">>, <<"-", "1">>,
      <<"1", ".", "1">>, <<"1", "0">>, <<"2">>, <<"0", ".", "5">>, <<".">>,
      <<"x">>, <<"1", "x">>, <<"1", ".", "1", ".">> }
Radixes == {2, 10}

\* char::to_digit(radix): <<d>> when c is a digit of the radix, else <<>>.
ToDigit(c, radix) ==
    LET d == CASE c = "0" -> 0 [] c = "1" -> 1 [] c = "2" -> 2
               [] c = "5" -> 5 [] OTHER -> radix
    IN  IF d < radix THEN <<d>> ELSE <<>>

\* The significand of src from position i on: digits, at most one point, and
\* anything else is invalid. The digits read so far denote num / den.
RECURSIVE ScanDigits(_, _, _, _, _, _)
ScanDigits(src, radix, i, frac, num, den) ==
    IF i > Len(src) THEN [ok |-> TRUE, num |-> num, den |-> den]
    ELSE IF ToDigit(src[i], radix) # <<>>
         THEN ScanDigits(src, radix, i + 1, frac,
                         num * radix + ToDigit(src[i], radix)[1],
                         IF frac THEN den * radix ELSE den)
    ELSE IF src[i] = "." /\ ~frac
         THEN ScanDigits(src, radix, i + 1, TRUE, num, den)
    ELSE [ok |-> FALSE, num |-> num, den |-> den]

\* F::from_str_radix(src, radix) (num_traits Num for a float type): the three
\* special texts, an optional minus sign, then the significand, rounded to the
\* nearest value of F; a magnitude beyond F's range parses as an infinity.
\* The error is a ParseFloatError of kind Empty or Invalid.
FFromStrRadix(src, radix) ==
    LET neg == Len(src) > 0 /\ src[1] = "-"
        scan == ScanDigits(src, radix, IF neg THEN 2 ELSE 1, FALSE, 0, 1)
    IN  IF src = <<"i", "n", "f">> THEN [ok |-> TRUE, value |-> FInfinity]
        ELSE IF src = <<"-", "i", "n", "f">> THEN [ok |-> TRUE, value |-> FNegInfinity]
        ELSE IF src = <<"N", "a", "N">> THEN [ok |-> TRUE, value |-> NaN]
        ELSE IF src = <<>> \/ src = <<"-">> THEN [ok |-> FALSE, err |-> [kind |-> "Empty"]]
        ELSE IF ~scan.ok THEN [ok |-> FALSE, err |-> [kind |-> "Invalid"]]
        ELSE [ok |-> TRUE,
              value |-> Pack(neg, RoundDiv(2 * scan.num, scan.den))]

(***************************************************************************)
(* The wrapper: NoisyFloat<F, C>                                           *)
(***************************************************************************)
\* The float checkers C the model instantiates the wrapper with.
Checkers == {"NumChecker", "FiniteChecker", "PositiveChecker"}

VARIABLES
    checker,    \* the type parameter C
    asserting,  \* C::assert is an active check: assert!, or debug_assert! in a
                \* build with debug assertions (FALSE: compiled out)
    a, b,       \* the caller's two variables: <<>> or <<instance>>
    op,         \* the operation that ran last, "idle" when its result was consumed
    arg,        \* its operands
    pre,        \* <<a, b>> as they were before a compound assignment
    ret,        \* the instances it returned (an Option is <<>> or <<instance>>)
    out,        \* the plain value it returned, as <<value>>
    halted      \* it panicked

vars == <<checker, asserting, a, b, op, arg, pre, ret, out, halted>>

\* NumChecker::check: NaN is invalid.
NumCheck(value) == ~FIsNan(value)

\* FiniteChecker::check: NaN and the infinities are invalid.
FiniteCheck(value) == FIsFinite(value)

\* A custom FloatChecker: only values above zero are valid.
PositiveCheck(value) == FGt(value, FZero)

\* C::check(value)
Check(value) ==
    CASE checker = "NumChecker" -> NumCheck(value)
      [] checker = "FiniteChecker" -> FiniteCheck(value)
      [] checker = "PositiveChecker" -> PositiveCheck(value)

\* C::assert(value) panics.
AssertPanics(value) == asserting /\ ~Check(value)

\* How a call ends: it panics, or returns the instances val.
Panic == [panic |-> TRUE, val |-> <<>>]
Returns(val) == [panic |-> FALSE, val |-> val]

unchecked_new(value) == [value |-> value]

\* new without the call of C::assert.
new_without_assert(value) == Returns(<<unchecked_new(value)>>)

new(value) ==
    IF AssertPanics(value) THEN Panic ELSE Returns(<<unchecked_new(value)>>)

\* try_new with its condition negated.
try_new_negated(value) ==
    IF ~Check(value) THEN <<[value |-> value]>> ELSE <<>>

\* Option<Self>: <<>> is None.
try_new(value) ==
    IF Check(value) THEN <<[value |-> value]>> ELSE <<>>

\* Self::new(F::from(value).unwrap())
from_f32(value) ==
    IF FFrom(value) = <<>> THEN Panic ELSE new(FFrom(value)[1])

from_f64(value) ==
    IF FFrom(value) = <<>> THEN Panic ELSE new(FFrom(value)[1])

raw(self) == self.value

default == new(FDefault)

clone(self) == unchecked_new(self.value)

eq(self, other) == FEq(self.value, other.value)
partial_cmp(self, other) == FPartialCmp(self.value, other.value)
lt(self, other) == FLt(self.value, other.value)
le(self, other) == FLe(self.value, other.value)
gt(self, other) == FGt(self.value, other.value)
ge(self, other) == FGe(self.value, other.value)

\* cmp with <= where the code has <.
cmp_with_le(self, other) ==
    IF FLe(self.value, other.value) THEN "Less"
    ELSE IF FEq(self.value, other.value) THEN "Equal"
    ELSE "Greater"

cmp(self, other) ==
    IF FLt(self.value, other.value) THEN "Less"
    ELSE IF FEq(self.value, other.value) THEN "Equal"
    ELSE "Greater"

\* sub applying the raw addition; div with its operands swapped.
sub_as_add(self, rhs) == new(FAdd(self.value, rhs.value))
div_swapped(self, rhs) == new(FDiv(rhs.value, self.value))

add(self, rhs) == new(FAdd(self.value, rhs.value))
sub(self, rhs) == new(FSub(self.value, rhs.value))
mul(self, rhs) == new(FMul(self.value, rhs.value))
div(self, rhs) == new(FDiv(self.value, rhs.value))
rem(self, rhs) == new(FRem(self.value, rhs.value))

\* A compound assignment that asserts before it overwrites self, and so leaves
\* self as it was when the assertion panics.
AssignedAfterAssert(self, value) ==
    [self |-> IF AssertPanics(value) THEN self ELSE [self EXCEPT !.value = value],
     panic |-> AssertPanics(value)]

\* A compound assignment: self as the call leaves it, and whether it panicked.
Assigned(self, value) ==
    [self |-> [self EXCEPT !.value = value], panic |-> AssertPanics(value)]

add_assign(self, rhs) == Assigned(self, FAdd(self.value, rhs.value))
sub_assign(self, rhs) == Assigned(self, FSub(self.value, rhs.value))
mul_assign(self, rhs) == Assigned(self, FMul(self.value, rhs.value))
div_assign(self, rhs) == Assigned(self, FDiv(self.value, rhs.value))
rem_assign(self, rhs) == Assigned(self, FRem(self.value, rhs.value))

neg(self) == new(FNeg(self.value))

zero == Returns(<<unchecked_new(FZero)>>)
is_zero(self) == FIsZero(self.value)
one == Returns(<<unchecked_new(FOne)>>)

\* from_str_radix wrapping the parsed value without the call of C::assert.
from_str_radix_unchecked(str, radix) ==
    LET parsed == FFromStrRadix(str, radix)
    IN  IF parsed.ok
        THEN [panic |-> FALSE, val |-> <<unchecked_new(parsed.value)>>, err |-> <<>>]
        ELSE [panic |-> FALSE, val |-> <<>>, err |-> <<parsed.err>>]

\* Num::from_str_radix(str, radix): Result<Self, F::FromStrRadixErr>, the
\* parse result mapped through new. val is the Ok instance, err the Err value.
from_str_radix(str, radix) ==
    LET parsed == FFromStrRadix(str, radix)
    IN  IF parsed.ok
        THEN [panic |-> new(parsed.value).panic, val |-> new(parsed.value).val,
              err |-> <<>>]
        ELSE [panic |-> FALSE, val |-> <<>>, err |-> <<parsed.err>>]

\* NumCast::from building its result with the panicking constructor.
from_with_new(n) ==
    IF FFrom(n) = <<>> THEN Returns(<<>>) ELSE new(FFrom(n)[1])

\* NumCast::from(n): Option<Self>
from(n) ==
    IF FFrom(n) = <<>> THEN Returns(<<>>) ELSE Returns(try_new(FFrom(n)[1]))

\* nan() as the other constants are written.
nan_through_new == new(NaN)

nan == Panic
infinity == new(FInfinity)
neg_infinity == new(FNegInfinity)
neg_zero == new(FNegZero)
min_value == new(FMinValue)
min_positive_value == new(FMinPositiveValue)
max_value == new(FMaxValue)
is_nan(self) == FALSE
is_infinite(self) == FIsInfinite(self.value)
is_finite(self) == FIsFinite(self.value)
is_normal(self) == FIsNormal(self.value)
classify(self) == FClassify(self.value)
floor(self) == new(FFloor(self.value))
ceil(self) == new(FCeil(self.value))
round(self) == new(FRound(self.value))
trunc(self) == new(FTrunc(self.value))
fract(self) == new(FFract(self.value))
abs(self) == new(FAbs(self.value))
signum(self) == new(FSignum(self.value))
is_sign_positive(self) == FIsSignPositive(self.value)
is_sign_negative(self) == FIsSignNegative(self.value)
mul_add(self, m, t) == new(FMulAdd(self.value, m.value, t.value))
recip(self) == new(FRecip(self.value))
powi(self, n) == new(FPowi(self.value, n))
\* sqrt without the panicking constructor.
sqrt_unchecked(self) == Returns(<<unchecked_new(FSqrt(self.value))>>)

sqrt(self) == new(FSqrt(self.value))
exp(self) == new(FExp(self.value))
ln(self) == new(FLn(self.value))
max(self, other) == new(FMax(self.value, other.value))
min(self, other) == new(FMin(self.value, other.value))
abs_sub(self, other) == new(FAbsSub(self.value, other.value))
cbrt(self) == new(FCbrt(self.value))
hypot(self, other) == new(FHypot(self.value, other.value))
sin(self) == new(FSin(self.value))
cos(self) == new(FCos(self.value))

\* (Self::new(a), Self::new(b)) of the pair self.value.sin_cos()
sin_cos(self) ==
    LET pair == FSinCos(self.value)
    IN  IF new(pair[1]).panic \/ new(pair[2]).panic THEN Panic
        ELSE Returns(new(pair[1]).val \o new(pair[2]).val)

integer_decode(self) == FIntegerDecode(self.value)
to_degrees(self) == new(FToDegrees(self.value))
to_radians(self) == new(FToRadians(self.value))

\* Iterator::min and Iterator::max over a collection of instances, by Ord::cmp:
\* min keeps the first of equal elements, max the last.
RECURSIVE IterMin(_)
IterMin(items) ==
    IF Len(items) = 1 THEN items[1]
    ELSE LET rest == IterMin(SubSeq(items, 1, Len(items) - 1))
             last == items[Len(items)]
         IN  IF cmp(rest, last) = "Greater" THEN last ELSE rest

RECURSIVE IterMax(_)
IterMax(items) ==
    IF Len(items) = 1 THEN items[1]
    ELSE LET rest == IterMax(SubSeq(items, 1, Len(items) - 1))
             last == items[Len(items)]
         IN  IF cmp(rest, last) = "Greater" THEN rest ELSE last

(***************************************************************************)
(* The state machine: a caller holding two variables runs one operation    *)
(* at a time, then binds or drops what it returned.                        *)
(***************************************************************************)
Init ==
    /\ checker \in Checkers
    /\ asserting \in BOOLEAN
    /\ a = <<>>
    /\ b = <<>>
    /\ op = "idle"
    /\ arg = <<>>
    /\ pre = <<>>
    /\ ret = <<>>
    /\ out = <<>>
    /\ halted = FALSE

\* No call is pending and the program has not panicked.
Ready == ~halted /\ op = "idle"

\* The instances the caller holds.
Live == {s[1] : s \in {t \in {a, b} : t # <<>>}}

\* The call `name(args)` ends as `outcome` says, returning the plain value
\* `plain` beside its instances.
Finish(name, args, outcome, plain) ==
    /\ op' = name
    /\ arg' = args
    /\ pre' = <<>>
    /\ ret' = outcome.val
    /\ out' = plain
    /\ halted' = outcome.panic
    /\ UNCHANGED <<checker, asserting, a, b>>

\* self op= rhs on the variable a: a is overwritten whether or not the
\* assertion then panics.
FinishAssign(name, rhs, assigned) ==
    /\ op' = name
    /\ arg' = <<rhs>>
    /\ pre' = <<a, b>>
    /\ a' = <<assigned.self>>
    /\ ret' = <<>>
    /\ out' = <<>>
    /\ halted' = assigned.panic
    /\ UNCHANGED <<checker, asserting, b>>

New == Ready /\ \E v \in FValues : Finish("new", <<v>>, new(v), <<>>)
TryNew == Ready /\ \E v \in FValues : Finish("try_new", <<v>>, Returns(try_new(v)), <<>>)
FromF32 == Ready /\ \E v \in FValues : Finish("from_f32", <<v>>, from_f32(v), <<>>)
FromF64 == Ready /\ \E v \in WideValues : Finish("from_f64", <<v>>, from_f64(v), <<>>)
RawOf == Ready /\ \E s \in Live : Finish("raw", <<s>>, Returns(<<>>), <<raw(s)>>)
Clone == Ready /\ \E s \in Live : Finish("clone", <<s>>, Returns(<<clone(s)>>), <<>>)

\* eq, lt, le, gt, ge, partial_cmp and cmp on the pairs of three instances: two
\* of the caller's and one freshly built by try_new.
Compare ==
    /\ Ready
    /\ \E p \in Live, q \in Live, v \in FValues :
        /\ try_new(v) # <<>>
        /\ LET r == try_new(v)[1]
           IN  Finish("compare", <<p, q, r>>, Returns(<<>>),
                      <<[eq_pq |-> eq(p, q), lt_pq |-> lt(p, q), le_pq |-> le(p, q),
                         gt_pq |-> gt(p, q), ge_pq |-> ge(p, q),
                         partial_cmp_pq |-> partial_cmp(p, q), cmp_pq |-> cmp(p, q),
                         lt_qr |-> lt(q, r), lt_pr |-> lt(p, r),
                         cmp_qr |-> cmp(q, r), cmp_pr |-> cmp(p, r)]>>)

\* values.iter().cloned().min() and .max() over a collection of three.
IterMinMax ==
    /\ Ready
    /\ \E p \in Live, q \in Live, v \in FValues :
        /\ try_new(v) # <<>>
        /\ LET items == <<p, q, try_new(v)[1]>>
           IN  Finish("iter_min_max", items,
                      Returns(<<IterMin(items), IterMax(items)>>), <<>>)

\* A call without operands: a constant, zero(), one(), default(), nan().
Nullary(name, outcome) ==
    Ready /\ Finish(name, <<>>, outcome, <<>>)

\* The operations of one shape take their result from a function of the
\* operands: Op[<<self, rhs>>], Op[self], Op[rhs].
Binary(name, Op) ==
    Ready /\ \E self \in Live, rhs \in Live : Finish(name, <<self, rhs>>, Op[<<self, rhs>>], <<>>)

Unary(name, Op) ==
    Ready /\ \E self \in Live : Finish(name, <<self>>, Op[self], <<>>)

Query(name, Op) ==
    Ready /\ \E self \in Live : Finish(name, <<self>>, Returns(<<>>), <<Op[self]>>)

Assign(name, Op) ==
    Ready /\ a # <<>> /\ \E rhs \in Live : FinishAssign(name, rhs, Op[rhs])

NumCastFrom == Ready /\ \E n \in WideValues : Finish("from", <<n>>, from(n), <<>>)

FromStrRadix ==
    Ready /\ \E str \in Texts, radix \in Radixes :
        Finish("from_str_radix", <<str, radix>>, from_str_radix(str, radix),
               from_str_radix(str, radix).err)

MulAdd ==
    Ready /\ \E self \in Live, m \in Live, t \in Live :
        Finish("mul_add", <<self, m, t>>, mul_add(self, m, t), <<>>)

Powi ==
    Ready /\ \E self \in Live, n \in PowiExponents :
        Finish("powi", <<self, n>>, powi(self, n), <<>>)

\* The caller is done with the last call's result.
Consumed ==
    /\ op' = "idle"
    /\ arg' = <<>>
    /\ pre' = <<>>
    /\ ret' = <<>>
    /\ out' = <<>>
    /\ UNCHANGED <<checker, asserting, halted>>

\* let a = result; or let b = result; (the wrapper is Copy).
Bind ==
    /\ ~halted
    /\ op # "idle"
    /\ \E i \in 1..Len(ret) :
        \/ a' = <<ret[i]>> /\ b' = b
        \/ b' = <<ret[i]>> /\ a' = a
    /\ Consumed

Drop ==
    /\ ~halted
    /\ op # "idle"
    /\ UNCHANGED <<a, b>>
    /\ Consumed

Next ==
    \/ New
    \/ TryNew
    \/ FromF32
    \/ FromF64
    \/ RawOf
    \/ Nullary("default", default)
    \/ Clone
    \/ Compare
    \/ IterMinMax
    \/ Binary("add", [p \in Live \X Live |-> add(p[1], p[2])])
    \/ Binary("sub", [p \in Live \X Live |-> sub(p[1], p[2])])
    \/ Binary("mul", [p \in Live \X Live |-> mul(p[1], p[2])])
    \/ Binary("div", [p \in Live \X Live |-> div(p[1], p[2])])
    \/ Binary("rem", [p \in Live \X Live |-> rem(p[1], p[2])])
    \/ Assign("add_assign", [rhs \in Live |-> add_assign(a[1], rhs)])
    \/ Assign("sub_assign", [rhs \in Live |-> sub_assign(a[1], rhs)])
    \/ Assign("mul_assign", [rhs \in Live |-> mul_assign(a[1], rhs)])
    \/ Assign("div_assign", [rhs \in Live |-> div_assign(a[1], rhs)])
    \/ Assign("rem_assign", [rhs \in Live |-> rem_assign(a[1], rhs)])
    \/ Unary("neg", [self \in Live |-> neg(self)])
    \/ Nullary("zero", zero)
    \/ Query("is_zero", [self \in Live |-> is_zero(self)])
    \/ Nullary("one", one)
    \/ NumCastFrom
    \/ FromStrRadix
    \/ Nullary("nan", nan)
    \/ Nullary("infinity", infinity)
    \/ Nullary("neg_infinity", neg_infinity)
    \/ Nullary("neg_zero", neg_zero)
    \/ Nullary("min_value", min_value)
    \/ Nullary("min_positive_value", min_positive_value)
    \/ Nullary("max_value", max_value)
    \/ Query("is_nan", [self \in Live |-> is_nan(self)])
    \/ Query("is_infinite", [self \in Live |-> is_infinite(self)])
    \/ Query("is_finite", [self \in Live |-> is_finite(self)])
    \/ Query("is_normal", [self \in Live |-> is_normal(self)])
    \/ Query("classify", [self \in Live |-> classify(self)])
    \/ Unary("floor", [self \in Live |-> floor(self)])
    \/ Unary("ceil", [self \in Live |-> ceil(self)])
    \/ Unary("round", [self \in Live |-> round(self)])
    \/ Unary("trunc", [self \in Live |-> trunc(self)])
    \/ Unary("fract", [self \in Live |-> fract(self)])
    \/ Unary("abs", [self \in Live |-> abs(self)])
    \/ Unary("signum", [self \in Live |-> signum(self)])
    \/ Query("is_sign_positive", [self \in Live |-> is_sign_positive(self)])
    \/ Query("is_sign_negative", [self \in Live |-> is_sign_negative(self)])
    \/ MulAdd
    \/ Unary("recip", [self \in Live |-> recip(self)])
    \/ Powi
    \/ Unary("sqrt", [self \in Live |-> sqrt(self)])
    \/ Unary("exp", [self \in Live |-> exp(self)])
    \/ Unary("ln", [self \in Live |-> ln(self)])
    \/ Binary("max", [p \in Live \X Live |-> max(p[1], p[2])])
    \/ Binary("min", [p \in Live \X Live |-> min(p[1], p[2])])
    \/ Binary("abs_sub", [p \in Live \X Live |-> abs_sub(p[1], p[2])])
    \/ Unary("cbrt", [self \in Live |-> cbrt(self)])
    \/ Binary("hypot", [p \in Live \X Live |-> hypot(p[1], p[2])])
    \/ Unary("sin", [self \in Live |-> sin(self)])
    \/ Unary("cos", [self \in Live |-> cos(self)])
    \/ Unary("sin_cos", [self \in Live |-> sin_cos(self)])
    \/ Query("integer_decode", [self \in Live |-> integer_decode(self)])
    \/ Unary("to_degrees", [self \in Live |-> to_degrees(self)])
    \/ Unary("to_radians", [self \in Live |-> to_radians(self)])
    \/ Bind
    \/ Drop

Spec == Init /\ [][Next]_vars

TypeOK ==
    /\ checker \in Checkers
    /\ asserting \in BOOLEAN
    /\ halted \in BOOLEAN
    /\ \A s \in {a, b} : Len(s) <= 1
    /\ \A s \in Live : s.value \in FValues
    /\ \A i \in 1..Len(ret) : ret[i].value \in FValues

(***************************************************************************)
(* Properties                                                              *)
(***************************************************************************)
\* The instance satisfies its checker's predicate.
Valid(inst) == Check(inst.value)

\* Every instance in existence: the caller's and the ones just returned.
Instances == Live \cup {ret[i] : i \in 1..Len(ret)}

\* The raw operation behind each operator, and behind each compound assignment.
RawBinary(name, v, w) ==
    CASE name \in {"add", "add_assign"} -> FAdd(v, w)
      [] name \in {"sub", "sub_assign"} -> FSub(v, w)
      [] name \in {"mul", "mul_assign"} -> FMul(v, w)
      [] name \in {"div", "div_assign"} -> FDiv(v, w)
      [] name \in {"rem", "rem_assign"} -> FRem(v, w)

Operators == {"add", "sub", "mul", "div", "rem"}
AssignOperators == {"add_assign", "sub_assign", "mul_assign", "div_assign", "rem_assign"}

\* The binary operator a compound assignment corresponds to.
OperatorOf(name, self, rhs) ==
    CASE name = "add_assign" -> add(self, rhs)
      [] name = "sub_assign" -> sub(self, rhs)
      [] name = "mul_assign" -> mul(self, rhs)
      [] name = "div_assign" -> div(self, rhs)
      [] name = "rem_assign" -> rem(self, rhs)

\* The raw result of the last operator or negation.
OperatorRaw ==
    IF op = "neg" THEN FNeg(arg[1].value)
    ELSE RawBinary(op, arg[1].value, arg[2].value)

\* C1: when C::assert is an active check, after any sequence of public
\* operations that returned normally every instance holds a value that
\* satisfies C::check.
C1_HeldValuesSatisfyCheck ==
    (asserting /\ ~halted) => \A inst \in Instances : Valid(inst)

\* C2: for a raw value v with C::check(v), try_new(v) does not halt and returns
\* Some(x) with x.raw() = v exactly.
C2_TryNewRoundTrip ==
    (op = "try_new" /\ Check(arg[1])) =>
        /\ ~halted
        /\ Len(ret) = 1
        /\ raw(ret[1]) = arg[1]

C2_Witness ==
    /\ op = "try_new"
    /\ Check(arg[1])
    /\ arg[1].cls = "fin"
    /\ ret = <<[value |-> arg[1]]>>

\* C3 as stated: for a raw value v with C::check(v) false, try_new(v) returns
\* None without halting and new(v) halts.
C3_Original ==
    /\ (op = "try_new" /\ ~Check(arg[1])) => (~halted /\ ret = <<>>)
    /\ (op = "new" /\ ~Check(arg[1])) => halted

\* C3 amended: for a raw value v with C::check(v) false, try_new(v) returns None
\* without halting; new(v) halts when C::assert is an active check, and where
\* the assertion is compiled out it returns an instance holding v.
C3_InvalidValueRejected ==
    /\ (op = "try_new" /\ ~Check(arg[1])) => (~halted /\ ret = <<>>)
    /\ (op = "new" /\ ~Check(arg[1])) =>
        /\ halted <=> asserting
        /\ ~asserting => ret = <<[value |-> arg[1]]>>

C3_Witness ==
    /\ op = "new"
    /\ checker = "FiniteChecker"
    /\ arg[1] = FNegInfinity
    /\ halted

\* C4 as stated: for valid operands, an operator (add, sub, mul, div, rem) or
\* negation halts if its raw result violates the policy, and otherwise returns
\* an instance holding exactly that raw result.
C4_Original ==
    (op \in Operators \cup {"neg"} /\ \A i \in 1..Len(arg) : Valid(arg[i])) =>
        IF Check(OperatorRaw) THEN ~halted /\ ret = <<[value |-> OperatorRaw]>>
        ELSE halted

\* C4 amended: for valid operands, an operator or negation whose raw result
\* violates the policy halts when C::assert is an active check (and returns the
\* invalid result where the assertion is compiled out); otherwise it returns an
\* instance holding exactly the raw result.
C4_OperatorsValidateResult ==
    (op \in Operators \cup {"neg"} /\ \A i \in 1..Len(arg) : Valid(arg[i])) =>
        /\ halted <=> (asserting /\ ~Check(OperatorRaw))
        /\ ~halted => ret = <<[value |-> OperatorRaw]>>

C4_Witness ==
    /\ op = "sub"
    /\ Valid(arg[1]) /\ Valid(arg[2])
    /\ arg[1].value = FInfinity /\ arg[2].value = FInfinity
    /\ halted

\* C5: on valid instances the comparisons are a total order: exactly one of
\* a < b, a == b, a > b holds, cmp answers accordingly and partial_cmp is never
\* None, a < b and b < c imply a < c; under NumChecker +infinity is a legal value
\* greater than every finite one; Iterator::min and max pick the raw minimum and
\* maximum.
C5_TotalOrder ==
    /\ (op = "compare" /\ \A i \in 1..3 : Valid(arg[i])) =>
        LET o == out[1]
        IN  /\ Cardinality({k \in {"lt", "eq", "gt"} :
                    \/ k = "lt" /\ o.lt_pq
                    \/ k = "eq" /\ o.eq_pq
                    \/ k = "gt" /\ o.gt_pq}) = 1
            /\ o.cmp_pq = "Less" <=> o.lt_pq
            /\ o.cmp_pq = "Equal" <=> o.eq_pq
            /\ o.cmp_pq = "Greater" <=> o.gt_pq
            /\ o.partial_cmp_pq = o.cmp_pq
            /\ o.le_pq <=> (o.lt_pq \/ o.eq_pq)
            /\ o.ge_pq <=> (o.gt_pq \/ o.eq_pq)
            /\ (o.lt_pq /\ o.lt_qr) => o.lt_pr
            /\ (o.cmp_pq = "Less" /\ o.cmp_qr = "Less") => o.cmp_pr = "Less"
            /\ (arg[1].value = FInfinity /\ FIsFinite(arg[2].value)) =>
                    (o.gt_pq /\ o.cmp_pq = "Greater")
    /\ (op = "infinity" /\ checker = "NumChecker") =>
        (~halted /\ ret = <<[value |-> FInfinity]>>)
    /\ (op = "iter_min_max" /\ \A i \in 1..3 : Valid(arg[i])) =>
        /\ \E i \in 1..3 : ret[1] = arg[i]
        /\ \E i \in 1..3 : ret[2] = arg[i]
        /\ \A i \in 1..3 : ~FLt(arg[i].value, ret[1].value)
        /\ \A i \in 1..3 : ~FLt(ret[2].value, arg[i].value)

C5_Witness ==
    /\ op = "compare"
    /\ checker = "NumChecker"
    /\ \A i \in 1..3 : Valid(arg[i])
    /\ out[1].lt_pq /\ out[1].lt_qr /\ out[1].lt_pr
    /\ arg[3].value = FInfinity

\* C6: nan() halts for every checker, whether or not C::assert is an active
\* check, and is_nan is false for every instance, whatever it holds.
C6_NanHaltsIsNanFalse ==
    /\ op = "nan" => (halted /\ ret = <<>>)
    /\ op = "is_nan" => (~halted /\ out = <<FALSE>>)

C6_Witness ==
    /\ op = "nan"
    /\ ~asserting
    /\ halted

\* The three divisions of C7, on valid operands.
ZeroByZero ==
    /\ op = "div" /\ Valid(arg[1]) /\ Valid(arg[2])
    /\ checker \in {"NumChecker", "FiniteChecker"}
    /\ FIsZero(arg[1].value) /\ FIsZero(arg[2].value)

NonZeroByZero ==
    /\ op = "div" /\ Valid(arg[1]) /\ Valid(arg[2])
    /\ checker = "FiniteChecker"
    /\ arg[1].value.cls = "fin" /\ FIsZero(arg[2].value)

FiniteByInfinity ==
    /\ op = "div" /\ Valid(arg[1]) /\ Valid(arg[2])
    /\ checker = "NumChecker"
    /\ FIsFinite(arg[1].value) /\ arg[2].value = FInfinity

\* C7 as stated: zero / zero halts under NumChecker and FiniteChecker, a
\* non-zero finite value / zero halts under FiniteChecker, and finite /
\* +infinity under NumChecker does not halt and equals zero.
C7_Original ==
    /\ ZeroByZero => halted
    /\ NonZeroByZero => halted
    /\ FiniteByInfinity => (~halted /\ Len(ret) = 1 /\ eq(ret[1], unchecked_new(FZero)))

\* C7 amended: zero / zero under NumChecker and FiniteChecker, and a non-zero
\* finite value / zero under FiniteChecker, halt when C::assert is an active
\* check (and not where it is compiled out); finite / +infinity under NumChecker
\* never halts and equals zero.
C7_DivisionAtBoundary ==
    /\ ZeroByZero => (halted <=> asserting)
    /\ NonZeroByZero => (halted <=> asserting)
    /\ FiniteByInfinity => (~halted /\ Len(ret) = 1 /\ eq(ret[1], unchecked_new(FZero)))

C7_Witness ==
    /\ ZeroByZero
    /\ checker = "NumChecker"
    /\ halted

\* C8: a compound assignment on valid operands overwrites the held value of a
\* with the raw result before C::assert runs on it; it halts exactly when the
\* corresponding binary operator halts on the same operands, leaves in a what
\* that operator would have returned, and leaves b unchanged.
C8_CompoundAssignment ==
    (op \in AssignOperators /\ Valid(pre[1][1]) /\ Valid(arg[1])) =>
        LET self == pre[1][1]
            rhs == arg[1]
            binary == OperatorOf(op, self, rhs)
        IN  /\ a = <<[value |-> RawBinary(op, self.value, rhs.value)]>>
            /\ halted <=> binary.panic
            /\ ~halted => a = binary.val
            /\ b = pre[2]

C8_Witness ==
    /\ op = "div_assign"
    /\ Valid(pre[1][1]) /\ Valid(arg[1])
    /\ halted
    /\ a = <<[value |-> NaN]>>
    /\ pre[1] # a

\* The raw result of each Float method the model covers.
UnaryMethods ==
    {"floor", "ceil", "round", "trunc", "fract", "abs", "signum", "recip", "sqrt",
     "exp", "ln", "cbrt", "sin", "cos", "to_degrees", "to_radians"}

BinaryMethods == {"max", "min", "abs_sub", "hypot"}

Constants ==
    {"infinity", "neg_infinity", "neg_zero", "min_value", "min_positive_value",
     "max_value"}

Queries ==
    {"is_infinite", "is_finite", "is_normal", "classify", "is_sign_positive",
     "is_sign_negative", "integer_decode", "is_zero"}

MethodRaw ==
    CASE op = "floor" -> FFloor(arg[1].value)
      [] op = "ceil" -> FCeil(arg[1].value)
      [] op = "round" -> FRound(arg[1].value)
      [] op = "trunc" -> FTrunc(arg[1].value)
      [] op = "fract" -> FFract(arg[1].value)
      [] op = "abs" -> FAbs(arg[1].value)
      [] op = "signum" -> FSignum(arg[1].value)
      [] op = "recip" -> FRecip(arg[1].value)
      [] op = "sqrt" -> FSqrt(arg[1].value)
      [] op = "exp" -> FExp(arg[1].value)
      [] op = "ln" -> FLn(arg[1].value)
      [] op = "cbrt" -> FCbrt(arg[1].value)
      [] op = "sin" -> FSin(arg[1].value)
      [] op = "cos" -> FCos(arg[1].value)
      [] op = "to_degrees" -> FToDegrees(arg[1].value)
      [] op = "to_radians" -> FToRadians(arg[1].value)
      [] op = "max" -> FMax(arg[1].value, arg[2].value)
      [] op = "min" -> FMin(arg[1].value, arg[2].value)
      [] op = "abs_sub" -> FAbsSub(arg[1].value, arg[2].value)
      [] op = "hypot" -> FHypot(arg[1].value, arg[2].value)
      [] op = "mul_add" -> FMulAdd(arg[1].value, arg[2].value, arg[3].value)
      [] op = "powi" -> FPowi(arg[1].value, arg[2])
      [] op = "infinity" -> FInfinity
      [] op = "neg_infinity" -> FNegInfinity
      [] op = "neg_zero" -> FNegZero
      [] op = "min_value" -> FMinValue
      [] op = "min_positive_value" -> FMinPositiveValue
      [] op = "max_value" -> FMaxValue

QueryResult ==
    CASE op = "is_infinite" -> FIsInfinite(arg[1].value)
      [] op = "is_finite" -> FIsFinite(arg[1].value)
      [] op = "is_normal" -> FIsNormal(arg[1].value)
      [] op = "classify" -> FClassify(arg[1].value)
      [] op = "is_sign_positive" -> FIsSignPositive(arg[1].value)
      [] op = "is_sign_negative" -> FIsSignNegative(arg[1].value)
      [] op = "integer_decode" -> FIntegerDecode(arg[1].value)
      [] op = "is_zero" -> FIsZero(arg[1].value)

ValueMethods == UnaryMethods \cup BinaryMethods \cup Constants \cup {"mul_add", "powi"}

\* C9 as stated: a Float method or constant that produces a checked value halts
\* exactly when its raw result violates the policy, and otherwise returns that
\* raw result; the queries never halt and return what the float returns.
C9_Original ==
    /\ op \in ValueMethods =>
        /\ halted <=> ~Check(MethodRaw)
        /\ ~halted => ret = <<[value |-> MethodRaw]>>
    /\ op = "sin_cos" =>
        /\ halted <=> (~Check(FSin(arg[1].value)) \/ ~Check(FCos(arg[1].value)))
        /\ ~halted => ret = <<[value |-> FSin(arg[1].value)], [value |-> FCos(arg[1].value)]>>
    /\ op \in Queries => (~halted /\ out = <<QueryResult>>)

\* C9 amended: a Float method or constant that produces a checked value passes
\* its raw result through new, so it halts exactly when that result violates
\* the policy and C::assert is an active check, and otherwise returns the raw
\* result; the queries never halt and return what the float returns.
C9_FloatMethodsValidate ==
    /\ op \in ValueMethods =>
        /\ halted <=> (asserting /\ ~Check(MethodRaw))
        /\ ~halted => ret = <<[value |-> MethodRaw]>>
    /\ op = "sin_cos" =>
        /\ halted <=> (asserting /\ (~Check(FSin(arg[1].value)) \/ ~Check(FCos(arg[1].value))))
        /\ ~halted => ret = <<[value |-> FSin(arg[1].value)], [value |-> FCos(arg[1].value)]>>
    /\ op \in Queries => (~halted /\ out = <<QueryResult>>)

C9_Witness ==
    /\ op = "sqrt"
    /\ Valid(arg[1])
    /\ FIsNan(FSqrt(arg[1].value))
    /\ halted

\* C10: NumCast::from(n) never halts; it returns None when F::from(n) fails or
\* the converted value violates the policy, and otherwise Some(x) with x.raw()
\* the converted value.
C10_NumCastFromValidates ==
    op = "from" =>
        /\ ~halted
        /\ IF FFrom(arg[1]) = <<>> THEN ret = <<>>
           ELSE IF ~Check(FFrom(arg[1])[1]) THEN ret = <<>>
           ELSE Len(ret) = 1 /\ raw(ret[1]) = FFrom(arg[1])[1]

C10_Witness ==
    /\ op = "from"
    /\ asserting
    /\ FFrom(arg[1]) # <<>>
    /\ ~Check(FFrom(arg[1])[1])
    /\ ret = <<>>
    /\ ~halted

\* C11 as first stated: a failed parse returns the parser's error and nothing
\* is enforced; a parsed value that violates the policy always halts.
C11_Original ==
    op = "from_str_radix" =>
        LET parsed == FFromStrRadix(arg[1], arg[2])
        IN  IF ~parsed.ok THEN ~halted /\ ret = <<>> /\ out = <<parsed.err>>
            ELSE IF ~Check(parsed.value) THEN halted /\ ret = <<>>
            ELSE ~halted /\ Len(ret) = 1 /\ raw(ret[1]) = parsed.value

\* C11: from_str_radix delegates to F's parser and then validates. A failed
\* parse returns the parser's error unchanged and never halts (an empty text
\* gives the Empty error, a stray character the Invalid one); a parsed value
\* goes through new, so one that violates the policy (the text NaN, or inf and
\* -inf under the finite-only policy) halts when C::assert is an active check
\* and is returned wrapped when it is compiled out; a valid one is returned
\* wrapped, with an Ok and no error.
C11_FromStrRadixValidates ==
    op = "from_str_radix" =>
        LET parsed == FFromStrRadix(arg[1], arg[2])
        IN  /\ IF ~parsed.ok THEN ~halted /\ ret = <<>> /\ out = <<parsed.err>>
               ELSE IF ~Check(parsed.value) /\ asserting
                    THEN halted /\ ret = <<>> /\ out = <<>>
               ELSE /\ ~halted
                    /\ Len(ret) = 1
                    /\ raw(ret[1]) = parsed.value
                    /\ out = <<>>
            /\ arg[1] = <<>> => ~halted /\ out = <<[kind |-> "Empty"]>>
            /\ arg[1] \in {<<"x">>, <<"1", "x">>, <<"n", "a", "n">>} =>
                   ~halted /\ out = <<[kind |-> "Invalid"]>>
            /\ arg[1] = <<"N", "a", "N">> /\ asserting => halted
            /\ /\ arg[1] \in {<<"i", "n", "f">>, <<"-", "i", "n", "f">>}
               /\ checker = "FiniteChecker"
               /\ asserting
               => halted
            /\ arg[1] = <<"i", "n", "f">> /\ checker = "NumChecker" =>
                   ~halted /\ ret = <<unchecked_new(FInfinity)>>

\* The text NaN parsed and the assertion panicked.
C11_Witness ==
    /\ op = "from_str_radix"
    /\ arg[1] = <<"N", "a", "N">>
    /\ asserting
    /\ FFromStrRadix(arg[1], arg[2]).ok
    /\ ~Check(FFromStrRadix(arg[1], arg[2]).value)
    /\ halted

=============================================================================
